---- MODULE Spec2Model ----
(***************************************************************************)
(* Model of the emulator reproduction harness: the orchestrator            *)
(* (src/run_all.sh, begin-strategy variant) that restarts the emulator,    *)
(* runs the scenario runner (src/main.go) once per matrix point and        *)
(* classifies the run from the tail of its output, and the emulator's      *)
(* behaviour as documented in src/issue_reply.md.                          *)
(* Output lines are sequences of characters, so that `grep "^PASS"` is a   *)
(* real prefix match.                                                      *)
(***************************************************************************)
EXTENDS Integers, Sequences, FiniteSets, TLC

VARIABLES
    hostEnv,    \* value of GOOGLE_CLOUD_SPANNER_MULTIPLEXED_SESSIONS_FOR_RW inherited by run_all.sh ("" = absent)
    pc,         \* position of run_all.sh
    i, j, k,    \* loop positions in the rw_env, delete and begin lists
    enumerated, \* the points run_test was called with, in call order
    results,    \* the results array
    printed,    \* rows of the report table written so far
    container,  \* the docker container named CONTAINER_NAME: "none" or "running"
    schema,     \* what exists in the emulator: "none", "instance", "database"
    rows,       \* primary keys present in table T
    rpc,        \* position of the ./repro process ("idle": no process)
    renv,       \* environment of the ./repro process
    args,       \* flags of the ./repro process
    client,     \* the spanner client of reproduce: "none", "open", "closed"
    rstat,      \* outcome of each step of the current ./repro process
    calls,      \* client API calls issued by the current ./repro process
    out,        \* lines written by the current ./repro process (stdout and stderr)
    rerr,       \* the error reproduce returned to main (<<>>: nil)
    exitCode,   \* exit status of the ./repro process
    faults      \* number of environment failures injected so far

vars == <<hostEnv, pc, i, j, k, enumerated, results, printed, container, schema, rows,
          rpc, renv, args, client, rstat, calls, out, rerr, exitCode, faults>>

orchVars == <<pc, i, j, k, enumerated, results, printed>>
backendVars == <<container, schema, rows>>
runnerVars == <<rpc, renv, args, client, rstat, calls, out, rerr, exitCode>>

(***************************************************************************)
(* Bounds                                                                  *)
(***************************************************************************)
\* environment failures (docker, rpc errors) injected per harness run
MaxFaults == 2
\* lines of runner output drawn for the classification pipeline
MaxLines == 2

(***************************************************************************)
(* Text written by main.go                                                 *)
(***************************************************************************)
L_PASS ==
    <<"P","A","S","S">>

L_INSERT ==
    <<"I","N","S","E","R","T",":"," ","R","e","a","d","W","r","i","t","e","T","r","a","n","s","a","c","t","i","o","n"," ","(","D","M","L",")">>

P_DEL_STMT_MUT ==
    <<"D","E","L","E","T","E",":"," ","S","t","m","t","B","a","s","e","d","T","r","a","n","s","a","c","t","i","o","n"," ","(","B","u","f","f","e","r","W","r","i","t","e",","," ","b","e","g","i","n","=">>

P_DEL_RW_MUT ==
    <<"D","E","L","E","T","E",":"," ","R","e","a","d","W","r","i","t","e","T","r","a","n","s","a","c","t","i","o","n"," ","(","B","u","f","f","e","r","W","r","i","t","e",","," ","b","e","g","i","n","=">>

L_DEL_APPLY ==
    <<"D","E","L","E","T","E",":"," ","c","l","i","e","n","t",".","A","p","p","l","y"," ","(","b","e","g","i","n"," ","o","p","t","i","o","n"," ","N","/","A",")">>

P_DEL_STMT_DML ==
    <<"D","E","L","E","T","E",":"," ","S","t","m","t","B","a","s","e","d","T","r","a","n","s","a","c","t","i","o","n"," ","(","D","M","L",","," ","b","e","g","i","n","=">>

P_CLOSE ==
    <<")">>

P_SETUP ==
    <<"S","e","t","u","p",":"," ">>

P_FAIL ==
    <<"F","A","I","L",":"," ">>

P_INSERT ==
    <<"i","n","s","e","r","t",":"," ">>

P_DELETE ==
    <<"d","e","l","e","t","e",":"," ">>

P_READ ==
    <<"r","e","a","d",":"," ">>

P_SCAN ==
    <<"s","c","a","n",":"," ">>

P_BEGIN ==
    <<"b","e","g","i","n",":"," ">>

P_BUFFER ==
    <<"b","u","f","f","e","r"," ","w","r","i","t","e",":"," ">>

P_QUERY ==
    <<"q","u","e","r","y",":"," ">>

P_UNKNOWN_BEGIN ==
    <<"u","n","k","n","o","w","n"," ","b","e","g","i","n"," ","m","o","d","e",":"," ">>

P_UNKNOWN_DELETE ==
    <<"u","n","k","n","o","w","n"," ","d","e","l","e","t","e"," ","m","o","d","e",":"," ">>

M_BUG ==
    <<"B","U","G",":"," ","r","o","w"," ","P","K","=","1"," ","s","t","i","l","l"," ","e","x","i","s","t","s"," ","a","f","t","e","r"," ","D","E","L","E","T","E"," ","s","u","c","c","e","e","d","e","d"," ","w","i","t","h","o","u","t"," ","e","r","r","o","r">>

L_NOHOST ==
    <<"S","P","A","N","N","E","R","_","E","M","U","L","A","T","O","R","_","H","O","S","T"," ","i","s"," ","n","o","t"," ","s","e","t">>

M_ERR ==
    <<"r","p","c"," ","e","r","r","o","r">>

C_default ==
    <<"d","e","f","a","u","l","t">>

C_inlined ==
    <<"i","n","l","i","n","e","d">>

C_explicit ==
    <<"e","x","p","l","i","c","i","t">>

C_stmt_mutation ==
    <<"s","t","m","t","-","m","u","t","a","t","i","o","n">>

C_rw_mutation ==
    <<"r","w","-","m","u","t","a","t","i","o","n">>

C_apply ==
    <<"a","p","p","l","y">>

C_stmt_dml ==
    <<"s","t","m","t","-","d","m","l">>

L_PASSED ==
    <<"P","A","S","S","E","D">>

L_PASS_X ==
    <<"P","A","S","S"," ","x">>

L_XPASS ==
    <<"x","P","A","S","S">>

L_PAS ==
    <<"P","A","S">>

\* What flag.Parse writes for the flag -insert, which main.go does not define:
\* the error and the usage with the defaults of the three flags
L_FLAG_INSERT ==
    <<"f","l","a","g"," ","p","r","o","v","i","d","e","d"," ","b","u","t"," ","n","o","t"," ","d","e","f","i","n","e","d",":"," ","-","i","n","s","e","r","t">>

USAGE ==
    <<<<"U","s","a","g","e"," ","o","f"," ",".","/","r","e","p","r","o",":">>,
      <<" "," ","-","b","e","g","i","n"," ","s","t","r","i","n","g">>,
      <<" "," "," "," ","\t","B","e","g","i","n","T","r","a","n","s","a","c","t","i","o","n"," ","m","o","d","e",":"," ","d","e","f","a","u","l","t",","," ","i","n","l","i","n","e","d",","," ","o","r"," ","e","x","p","l","i","c","i","t"," ","(","d","e","f","a","u","l","t"," ","\"","d","e","f","a","u","l","t","\"",")">>,
      <<" "," ","-","d","e","l","e","t","e"," ","s","t","r","i","n","g">>,
      <<" "," "," "," ","\t","D","E","L","E","T","E"," ","m","o","d","e",":"," ","s","t","m","t","-","m","u","t","a","t","i","o","n",","," ","r","w","-","m","u","t","a","t","i","o","n",","," ","a","p","p","l","y",","," ","o","r"," ","s","t","m","t","-","d","m","l"," ","(","d","e","f","a","u","l","t"," ","\"","s","t","m","t","-","m","u","t","a","t","i","o","n","\"",")">>,
      <<" "," ","-","s","k","i","p","-","s","e","t","u","p">>,
      <<" "," "," "," ","\t","s","k","i","p"," ","i","n","s","t","a","n","c","e","/","d","a","t","a","b","a","s","e"," ","c","r","e","a","t","i","o","n">>>>

C_bogus ==
    <<"b","o","g","u","s">>

(***************************************************************************)
(* Matrix axes of the begin-strategy variant (run_all.sh 109-111)          *)
(***************************************************************************)
Range(q) == {q[n] : n \in DOMAIN q}

RW_ENVS == <<"true", "false", "">>

DELETES == <<"stmt-mutation", "rw-mutation", "apply", "stmt-dml">>

BEGINS == <<"default", "inlined", "explicit">>

EMULATOR_HOST == "localhost:9010"

\* The insert values of the insert-method variant (run_all.sh 43)
INSERTS == <<"rw", "stmt">>

\* A flag value that is none of the modes
UNKNOWN_MODE == "bogus"

\* Mutant: `||` written for `&&` in the exclusion test
ExcludedPoint_Or(delete, begin) ==
    delete = "apply" \/ begin # "default"

\* Mutant: the test on the begin value forgotten
ExcludedPoint_AnyBegin(delete, begin) ==
    delete = "apply"

\* The apply exclusion of the inner loop body: `continue` when it holds.
ExcludedPoint(delete, begin) ==
    delete = "apply" /\ begin # "default"

\* The positions the three nested for loops visit after (a, b, c); a past the
\* end of RW_ENVS means the loops are over.
Advance(a, b, c) ==
    IF c < Len(BEGINS) THEN <<a, b, c + 1>>
    ELSE IF b < Len(DELETES) THEN <<a, b + 1, 1>>
    ELSE <<a + 1, 1, 1>>

\* label="RW=${rw_env:-unset} delete=${delete} begin=${begin}"
Label(rw_env, delete, begin) ==
    [rw |-> IF rw_env = "" THEN "unset" ELSE rw_env, delete |-> delete, begin |-> begin]

CurLabel == Label(RW_ENVS[i], DELETES[j], BEGINS[k])

\* env "${env[@]}": the inherited environment plus SPANNER_EMULATOR_HOST, plus
\* the toggle when rw_env is not empty.
BuildEnv(rw_env, inherited) ==
    [host |-> EMULATOR_HOST, mux |-> IF rw_env # "" THEN rw_env ELSE inherited]

(***************************************************************************)
(* The classification pipeline: ./repro 2>&1 | tail -1 | grep -q "^PASS"   *)
(***************************************************************************)
HasPrefix(line, p) ==
    Len(line) >= Len(p) /\ SubSeq(line, 1, Len(p)) = p

\* tail -1: the last line of its input, nothing when the input has no line
Tail1(lines) ==
    IF lines = <<>> THEN <<>> ELSE <<lines[Len(lines)]>>

\* grep -q "^PASS": succeeds when some input line starts with PASS
GrepQ(lines) ==
    \E n \in DOMAIN lines : HasPrefix(lines[n], L_PASS)

\* Exit status of the pipeline under `set -o pipefail`: that of the rightmost
\* command that failed, zero when all succeeded (tail does not fail).
PipelineStatus(lines, code) ==
    IF ~GrepQ(Tail1(lines)) THEN 1
    ELSE IF code # 0 THEN code
    ELSE 0

\* Mutant: the pipeline run as a plain command, outside the `if`
ErrExit_Unguarded(status, guarded) ==
    status # 0

\* `set -e`: a failing command ends the script unless it is the condition of
\* an `if` or the left side of `||`.
ErrExit(status, guarded) ==
    status # 0 /\ ~guarded

(***************************************************************************)
(* The emulator as documented in issue_reply.md                            *)
(***************************************************************************)
\* Multiplexed sessions for RW are enabled by default in the client and the
\* environment toggle turns them off.
MuxEnabled(toggle) ==
    toggle # "false"

\* Whether a transaction of the given API with the given begin option is begun
\* by an explicit BeginTransaction RPC.
ExplicitBegin(api, opt) ==
    CASE api = "stmt" -> opt \in {"Default", "Explicit"}
      [] api = "rw" -> opt = "Explicit"
      [] OTHER -> FALSE

\* A successful commit of a delete-by-key mutation: lost when the session is
\* multiplexed and the transaction was begun explicitly.
CommitMutation(table, toggle, api, opt) ==
    IF MuxEnabled(toggle) /\ ExplicitBegin(api, opt) THEN table ELSE table \ {1}

\* A successful commit of DELETE FROM T WHERE PK = 1
CommitDML(table) ==
    table \ {1}

(***************************************************************************)
(* main.go: pure parts                                                     *)
(***************************************************************************)
BeginChars(b) ==
    CASE b = "default" -> C_default
      [] b = "inlined" -> C_inlined
      [] b = "explicit" -> C_explicit
      [] OTHER -> C_bogus

DeleteChars(d) ==
    CASE d = "stmt-mutation" -> C_stmt_mutation
      [] d = "rw-mutation" -> C_rw_mutation
      [] d = "apply" -> C_apply
      [] d = "stmt-dml" -> C_stmt_dml
      [] OTHER -> C_bogus

\* Mutant: a mode that is not known taken for the default
parseBeginOption_AcceptsUnknown(b) ==
    CASE b = "inlined" -> [opt |-> "Inlined", err |-> <<>>]
      [] b = "explicit" -> [opt |-> "Explicit", err |-> <<>>]
      [] OTHER -> [opt |-> "Default", err |-> <<>>]

parseBeginOption(b) ==
    CASE b = "default" -> [opt |-> "Default", err |-> <<>>]
      [] b = "inlined" -> [opt |-> "Inlined", err |-> <<>>]
      [] b = "explicit" -> [opt |-> "Explicit", err |-> <<>>]
      [] OTHER -> [opt |-> "None", err |-> P_UNKNOWN_BEGIN \o BeginChars(b)]

\* fmt.Errorf("<step>: %w", err)
Wrap(step, err) == step \o err

\* log.Fatalf("FAIL: %v", err)
FailLine(err) == P_FAIL \o err

NoStat ==
    [setup |-> "none", client |-> "none", insert |-> "none", delete |-> "none",
     read |-> "none", scan |-> "none"]

\* Mutant: the transaction created without the options
execStmtMutation_NoOptions(table, toggle, opt, f) ==
    CASE f = "begin" ->
           [err |-> Wrap(P_BEGIN, M_ERR), calls |-> <<"NewStmtTxn">>, rows |-> table]
      [] f = "op" ->
           [err |-> Wrap(P_BUFFER, M_ERR),
            calls |-> <<"NewStmtTxn", "BufferWrite", "Rollback">>, rows |-> table]
      [] f = "commit" ->
           [err |-> M_ERR, calls |-> <<"NewStmtTxn", "BufferWrite", "Commit">>,
            rows |-> table]
      [] OTHER ->
           [err |-> <<>>, calls |-> <<"NewStmtTxn", "BufferWrite", "Commit">>,
            rows |-> CommitMutation(table, toggle, "stmt", "Default")]

\* execStmtMutation; f names the call that fails ("none": no failure)
execStmtMutation(table, toggle, opt, f) ==
    CASE f = "begin" ->
           [err |-> Wrap(P_BEGIN, M_ERR), calls |-> <<"NewStmtTxn">>, rows |-> table]
      [] f = "op" ->
           [err |-> Wrap(P_BUFFER, M_ERR),
            calls |-> <<"NewStmtTxn", "BufferWrite", "Rollback">>, rows |-> table]
      [] f = "commit" ->
           [err |-> M_ERR, calls |-> <<"NewStmtTxn", "BufferWrite", "Commit">>,
            rows |-> table]
      [] OTHER ->
           [err |-> <<>>, calls |-> <<"NewStmtTxn", "BufferWrite", "Commit">>,
            rows |-> CommitMutation(table, toggle, "stmt", opt)]

\* Mutant: the Rollback after a failed query left out
execStmtDML_NoRollback(table, opt, f) ==
    CASE f = "begin" ->
           [err |-> Wrap(P_BEGIN, M_ERR), calls |-> <<"NewStmtTxn">>, rows |-> table]
      [] f = "op" ->
           [err |-> Wrap(P_QUERY, M_ERR), calls |-> <<"NewStmtTxn", "Query">>,
            rows |-> table]
      [] f = "commit" ->
           [err |-> M_ERR, calls |-> <<"NewStmtTxn", "Query", "Commit">>, rows |-> table]
      [] OTHER ->
           [err |-> <<>>, calls |-> <<"NewStmtTxn", "Query", "Commit">>,
            rows |-> CommitDML(table)]

\* execStmtDML
execStmtDML(table, opt, f) ==
    CASE f = "begin" ->
           [err |-> Wrap(P_BEGIN, M_ERR), calls |-> <<"NewStmtTxn">>, rows |-> table]
      [] f = "op" ->
           [err |-> Wrap(P_QUERY, M_ERR),
            calls |-> <<"NewStmtTxn", "Query", "Rollback">>, rows |-> table]
      [] f = "commit" ->
           [err |-> M_ERR, calls |-> <<"NewStmtTxn", "Query", "Commit">>, rows |-> table]
      [] OTHER ->
           [err |-> <<>>, calls |-> <<"NewStmtTxn", "Query", "Commit">>,
            rows |-> CommitDML(table)]

\* Mutant: client.ReadWriteTransaction called, the options dropped
rwMutation_NoOptions(table, toggle, opt, f) ==
    IF f = "commit"
    THEN [err |-> M_ERR, calls |-> <<"ReadWriteTransaction">>, rows |-> table]
    ELSE [err |-> <<>>, calls |-> <<"ReadWriteTransaction">>,
          rows |-> CommitMutation(table, toggle, "rw", "Default")]

\* client.ReadWriteTransactionWithOptions with a BufferWrite of the delete
rwMutation(table, toggle, opt, f) ==
    IF f = "commit"
    THEN [err |-> M_ERR, calls |-> <<"ReadWriteTransactionWithOptions">>, rows |-> table]
    ELSE [err |-> <<>>, calls |-> <<"ReadWriteTransactionWithOptions">>,
          rows |-> CommitMutation(table, toggle, "rw", opt)]

\* client.Apply of the delete: no begin option is passed
applyMutation(table, toggle, f) ==
    IF f = "commit"
    THEN [err |-> M_ERR, calls |-> <<"Apply">>, rows |-> table]
    ELSE [err |-> <<>>, calls |-> <<"Apply">>,
          rows |-> CommitMutation(table, toggle, "apply", "Default")]

\* The calls of a delete mode that can fail
DeleteFaults(mode) ==
    CASE mode \in {"stmt-mutation", "stmt-dml"} -> {"begin", "op", "commit"}
      [] mode \in {"rw-mutation", "apply"} -> {"commit"}
      [] OTHER -> {}

\* Mutant: the apply case run as a read-write transaction with the options
DeleteStep_ApplyWithOptions(mode, table, toggle, opt, f) ==
    LET r == CASE mode = "stmt-mutation" -> execStmtMutation(table, toggle, opt, f)
               [] mode = "rw-mutation" -> rwMutation(table, toggle, opt, f)
               [] mode = "apply" -> rwMutation(table, toggle, opt, f)
               [] mode = "stmt-dml" -> execStmtDML(table, opt, f)
               [] OTHER -> [err |-> P_UNKNOWN_DELETE \o DeleteChars(mode),
                            calls |-> <<>>, rows |-> table]
        known == mode \in {"stmt-mutation", "rw-mutation", "apply", "stmt-dml"}
    IN  [err |-> IF known /\ r.err # <<>> THEN Wrap(P_DELETE, r.err) ELSE r.err,
         calls |-> r.calls, rows |-> r.rows]

\* Step 2 of reproduce: the switch on *deleteMode and the wrapping of its error
DeleteStep(mode, table, toggle, opt, f) ==
    LET r == CASE mode = "stmt-mutation" -> execStmtMutation(table, toggle, opt, f)
               [] mode = "rw-mutation" -> rwMutation(table, toggle, opt, f)
               [] mode = "apply" -> applyMutation(table, toggle, f)
               [] mode = "stmt-dml" -> execStmtDML(table, opt, f)
               [] OTHER -> [err |-> P_UNKNOWN_DELETE \o DeleteChars(mode),
                            calls |-> <<>>, rows |-> table]
        known == mode \in {"stmt-mutation", "rw-mutation", "apply", "stmt-dml"}
    IN  [err |-> IF known /\ r.err # <<>> THEN Wrap(P_DELETE, r.err) ELSE r.err,
         calls |-> r.calls, rows |-> r.rows]

\* The log line of step 2
DeleteLog(mode, begin) ==
    CASE mode = "stmt-mutation" -> <<P_DEL_STMT_MUT \o BeginChars(begin) \o P_CLOSE>>
      [] mode = "rw-mutation" -> <<P_DEL_RW_MUT \o BeginChars(begin) \o P_CLOSE>>
      [] mode = "apply" -> <<L_DEL_APPLY>>
      [] mode = "stmt-dml" -> <<P_DEL_STMT_DML \o BeginChars(begin) \o P_CLOSE>>
      [] OTHER -> <<>>

\* Mutant: a failed read taken for a row that is still there
VerifyStep_ReadErrIsBug(table, f) ==
    IF f = "read" THEN [read |-> "err", scan |-> "none", err |-> M_BUG]
    ELSE IF 1 \notin table THEN [read |-> "notfound", scan |-> "none", err |-> <<>>]
    ELSE IF f = "scan" THEN [read |-> "row", scan |-> "err", err |-> Wrap(P_SCAN, M_ERR)]
    ELSE [read |-> "row", scan |-> "ok", err |-> M_BUG]

\* Mutant: a row that is still there returns nil, like not-found
VerifyStep_RowIsNil(table, f) ==
    IF f = "read" THEN [read |-> "err", scan |-> "none", err |-> Wrap(P_READ, M_ERR)]
    ELSE IF 1 \notin table THEN [read |-> "notfound", scan |-> "none", err |-> <<>>]
    ELSE IF f = "scan" THEN [read |-> "row", scan |-> "err", err |-> Wrap(P_SCAN, M_ERR)]
    ELSE [read |-> "row", scan |-> "ok", err |-> <<>>]

\* Step 3 of reproduce: the point read of key 1 and what reproduce returns;
\* f is "read" or "scan" when that call fails.
VerifyStep(table, f) ==
    IF f = "read" THEN [read |-> "err", scan |-> "none", err |-> Wrap(P_READ, M_ERR)]
    ELSE IF 1 \notin table THEN [read |-> "notfound", scan |-> "none", err |-> <<>>]
    ELSE IF f = "scan" THEN [read |-> "row", scan |-> "err", err |-> Wrap(P_SCAN, M_ERR)]
    ELSE [read |-> "row", scan |-> "ok", err |-> M_BUG]

(***************************************************************************)
(* Initial state                                                           *)
(***************************************************************************)
Init ==
    /\ hostEnv \in {"", "true", "false"}
    /\ pc = "build"
    /\ i = 1 /\ j = 1 /\ k = 1
    /\ enumerated = <<>>
    /\ results = <<>>
    /\ printed = <<>>
    \* a container of an earlier run may still be there
    /\ \/ container = "none" /\ schema = "none" /\ rows = {}
       \/ container = "running" /\ schema = "database" /\ rows \in {{}, {1}}
    /\ rpc = "idle"
    /\ renv = [host |-> "", mux |-> ""]
    /\ args = [delete |-> "", begin |-> "", insert |-> "", skipSetup |-> FALSE]
    /\ client = "none"
    /\ rstat = NoStat
    /\ calls = <<>>
    /\ out = <<>>
    /\ rerr = <<>>
    /\ exitCode = 0
    /\ faults = 0

\* An environment failure may be injected while the budget lasts
Inject(failed) ==
    /\ failed => faults < MaxFaults
    /\ faults' = IF failed THEN faults + 1 ELSE faults

(***************************************************************************)
(* run_all.sh                                                              *)
(***************************************************************************)
\* go build -o repro . || exit 1
Build ==
    /\ pc = "build"
    /\ \E ok \in BOOLEAN :
         /\ Inject(~ok)
         /\ pc' = IF ok THEN "loop" ELSE "aborted"
    /\ UNCHANGED <<hostEnv, i, j, k, enumerated, results, printed, backendVars, runnerVars>>

\* the for loops are over: go on to the cleanup
LoopExit ==
    /\ pc = "loop"
    /\ i > Len(RW_ENVS)
    /\ pc' = "cleanup"
    /\ UNCHANGED <<hostEnv, i, j, k, enumerated, results, printed, backendVars, runnerVars, faults>>

\* the `continue` of the inner loop
LoopContinue ==
    /\ pc = "loop"
    /\ i <= Len(RW_ENVS)
    /\ ExcludedPoint(DELETES[j], BEGINS[k])
    /\ LET n == Advance(i, j, k) IN i' = n[1] /\ j' = n[2] /\ k' = n[3]
    /\ UNCHANGED <<hostEnv, pc, enumerated, results, printed, backendVars, runnerVars, faults>>

\* run_test "$rw_env" "$delete" "$begin"
LoopCall ==
    /\ pc = "loop"
    /\ i <= Len(RW_ENVS)
    /\ ~ExcludedPoint(DELETES[j], BEGINS[k])
    /\ pc' = "rm"
    /\ enumerated' = Append(enumerated, <<RW_ENVS[i], DELETES[j], BEGINS[k]>>)
    /\ UNCHANGED <<hostEnv, i, j, k, results, printed, backendVars, runnerVars, faults>>

\* docker rm -f "$CONTAINER_NAME" &>/dev/null || true
DockerRm ==
    /\ pc = "rm"
    /\ \E ok \in BOOLEAN :
         /\ Inject(~ok)
         /\ IF ok
            THEN container' = "none" /\ schema' = "none" /\ rows' = {}
            ELSE UNCHANGED backendVars
         /\ pc' = IF ErrExit(IF ok THEN 0 ELSE 1, TRUE) THEN "aborted" ELSE "run"
    /\ UNCHANGED <<hostEnv, i, j, k, enumerated, results, printed, runnerVars>>

\* Mutant: docker run ... || true, the run going on with the container that
\* is there
DockerRun_IgnoreFailure ==
    /\ pc = "run"
    /\ \E ok \in BOOLEAN :
         /\ Inject(~ok)
         /\ LET status == IF ok /\ container = "none" THEN 0 ELSE 125
            IN  /\ pc' = "spawn"
                /\ IF status = 0
                   THEN container' = "running" /\ schema' = "none" /\ rows' = {}
                   ELSE UNCHANGED backendVars
    /\ UNCHANGED <<hostEnv, i, j, k, enumerated, results, printed, runnerVars>>

\* docker run -d --rm ... --name "$CONTAINER_NAME" "$EMULATOR_IMAGE"; sleep 2
\* The name is taken while the old container exists, and docker run fails.
DockerRun ==
    /\ pc = "run"
    /\ \E ok \in BOOLEAN :
         /\ Inject(~ok)
         /\ LET status == IF ok /\ container = "none" THEN 0 ELSE 125
            IN  /\ pc' = IF ErrExit(status, FALSE) THEN "aborted" ELSE "spawn"
                /\ IF status = 0
                   THEN container' = "running" /\ schema' = "none" /\ rows' = {}
                   ELSE UNCHANGED backendVars
    /\ UNCHANGED <<hostEnv, i, j, k, enumerated, results, printed, runnerVars>>

\* env "${env[@]}" ./repro "${args[@]}" 2>&1 | ... : the process starts
Spawn ==
    /\ pc = "spawn"
    /\ pc' = "wait"
    /\ rpc' = "main"
    /\ renv' = BuildEnv(RW_ENVS[i], hostEnv)
    /\ args' = [delete |-> DELETES[j], begin |-> BEGINS[k], insert |-> "", skipSetup |-> FALSE]
    /\ client' = "none"
    /\ rstat' = NoStat
    /\ calls' = <<>>
    /\ out' = <<>>
    /\ rerr' = <<>>
    /\ exitCode' = 0
    /\ UNCHANGED <<hostEnv, i, j, k, enumerated, results, printed, backendVars, faults>>

\* Mutant: results=(...) written for results+=(...)
AppendResult_Overwrite(rs, verdict, label) ==
    <<[verdict |-> verdict, label |-> label]>>

\* results+=("PASS  $label") and results+=("BUG   $label")
AppendResult(rs, verdict, label) ==
    Append(rs, [verdict |-> verdict, label |-> label])

\* the `if` on the pipeline and the append to results; run_test returns and
\* the loops move on
Record ==
    /\ pc = "wait"
    /\ rpc = "exited"
    /\ LET status == PipelineStatus(out, exitCode)
       IN  IF ErrExit(status, TRUE)
           THEN pc' = "aborted" /\ UNCHANGED <<i, j, k, results>>
           ELSE /\ results' = AppendResult(results,
                                            IF status = 0 THEN "PASS" ELSE "BUG", CurLabel)
                /\ LET n == Advance(i, j, k) IN i' = n[1] /\ j' = n[2] /\ k' = n[3]
                /\ pc' = "loop"
    /\ rpc' = "idle"
    /\ UNCHANGED <<hostEnv, enumerated, printed, backendVars, renv, args, client, rstat, calls,
                   out, rerr, exitCode, faults>>

\* docker rm -f "$CONTAINER_NAME" &>/dev/null || true, after the loops
Cleanup ==
    /\ pc = "cleanup"
    /\ \E ok \in BOOLEAN :
         /\ Inject(~ok)
         /\ IF ok
            THEN container' = "none" /\ schema' = "none" /\ rows' = {}
            ELSE UNCHANGED backendVars
    /\ pc' = "report"
    /\ UNCHANGED <<hostEnv, i, j, k, enumerated, results, printed, runnerVars>>

\* the report loop: one table row per element of results
Report ==
    /\ pc = "report"
    /\ printed' = [n \in DOMAIN results |->
                     <<results[n].verdict, results[n].label.rw,
                       results[n].label.delete, results[n].label.begin>>]
    /\ pc' = "done"
    /\ UNCHANGED <<hostEnv, i, j, k, enumerated, results, backendVars, runnerVars, faults>>

(***************************************************************************)
(* main.go: the ./repro process                                            *)
(***************************************************************************)
\* The process writes its last lines and exits
Exit(lines, code) ==
    /\ out' = out \o lines
    /\ exitCode' = code
    /\ rpc' = "exited"

\* Mutant: the deferred client.Close left out
CloseClient_Leak(c) == c

\* defer client.Close(): runs when reproduce returns, on a client that was
\* opened
CloseClient(c) ==
    IF c = "open" THEN "closed" ELSE c

\* reproduce returns err to main (<<>>: nil); its deferred call runs
Return(err) ==
    /\ rerr' = err
    /\ client' = CloseClient(client)
    /\ rpc' = "returned"

\* main: flag.Parse, the SPANNER_EMULATOR_HOST check, the skip-setup test.
\* flag.Parse ends the process with status 2 on a flag that is not defined.
RunnerMain ==
    /\ rpc = "main"
    /\ IF args.insert # ""
       THEN Exit(<<L_FLAG_INSERT>> \o USAGE, 2)
       ELSE IF renv.host = ""
       THEN Exit(<<L_NOHOST>>, 1)
       ELSE /\ rpc' = IF args.skipSetup THEN "reproduce" ELSE "setup"
            /\ UNCHANGED <<out, exitCode>>
    /\ UNCHANGED <<hostEnv, orchVars, backendVars, renv, args, client, rstat, calls,
                   rerr, faults>>

\* setup: CreateInstance and CreateDatabase with the table, each awaited;
\* f names the one that fails. CreateInstance fails when the instance exists.
RunnerSetup ==
    /\ rpc = "setup"
    /\ \E f \in {"none", "instance", "database"} :
         /\ Inject(f # "none")
         /\ LET instErr == f = "instance" \/ schema # "none"
                dbErr == ~instErr /\ f = "database"
            IN  /\ calls' = calls \o (IF instErr THEN <<"CreateInstance">>
                                      ELSE <<"CreateInstance", "CreateDatabase">>)
                /\ schema' = IF instErr THEN schema
                             ELSE IF dbErr THEN "instance" ELSE "database"
                /\ rstat' = [rstat EXCEPT !.setup = IF instErr \/ dbErr THEN "err" ELSE "ok"]
                /\ IF instErr \/ dbErr
                   THEN Exit(<<P_SETUP \o M_ERR>>, 1)
                   ELSE rpc' = "reproduce" /\ UNCHANGED <<out, exitCode>>
    /\ UNCHANGED <<hostEnv, orchVars, container, rows, renv, args, client, rerr>>

\* reproduce: parseBeginOption and spanner.NewClientWithConfig
RunnerOpen ==
    /\ rpc = "reproduce"
    /\ LET b == parseBeginOption(args.begin)
       IN  IF b.err # <<>>
           THEN /\ Return(b.err)
                /\ UNCHANGED <<rstat, calls, faults>>
           ELSE \E ok \in BOOLEAN :
                  /\ Inject(~ok)
                  /\ calls' = Append(calls, "NewClient")
                  /\ rstat' = [rstat EXCEPT !.client = IF ok THEN "ok" ELSE "err"]
                  /\ IF ok
                     THEN client' = "open" /\ rpc' = "insert" /\ UNCHANGED rerr
                     ELSE Return(M_ERR)
    /\ UNCHANGED <<hostEnv, orchVars, backendVars, renv, args, out, exitCode>>

\* Mutant: the error of the insert not tested, the delete issued anyway
RunnerInsert_IgnoreError ==
    /\ rpc = "insert"
    /\ \E sent \in BOOLEAN :
         /\ Inject(~sent)
         /\ calls' = Append(calls, "ReadWriteTransaction")
         /\ out' = Append(out, L_INSERT)
         /\ LET ok == sent /\ schema = "database" /\ 1 \notin rows
            IN  /\ rstat' = [rstat EXCEPT !.insert = IF ok THEN "ok" ELSE "err"]
                /\ rows' = IF ok THEN rows \cup {1} ELSE rows
                /\ rpc' = "delete"
                /\ UNCHANGED <<client, rerr>>
    /\ UNCHANGED <<hostEnv, orchVars, container, schema, renv, args, exitCode>>

\* reproduce step 1: the INSERT in a ReadWriteTransaction; it fails when the
\* row is already there
RunnerInsert ==
    /\ rpc = "insert"
    /\ \E sent \in BOOLEAN :
         /\ Inject(~sent)
         /\ calls' = Append(calls, "ReadWriteTransaction")
         /\ out' = Append(out, L_INSERT)
         /\ LET ok == sent /\ schema = "database" /\ 1 \notin rows
            IN  /\ rstat' = [rstat EXCEPT !.insert = IF ok THEN "ok" ELSE "err"]
                /\ IF ok
                   THEN /\ rows' = rows \cup {1}
                        /\ rpc' = "delete"
                        /\ UNCHANGED <<client, rerr>>
                   ELSE /\ rows' = rows
                        /\ Return(Wrap(P_INSERT, M_ERR))
    /\ UNCHANGED <<hostEnv, orchVars, container, schema, renv, args, exitCode>>

\* reproduce step 2: the DELETE in the selected mode
RunnerDelete ==
    /\ rpc = "delete"
    /\ \E f \in {"none"} \cup DeleteFaults(args.delete) :
         /\ Inject(f # "none")
         /\ LET r == DeleteStep(args.delete, rows, renv.mux,
                                parseBeginOption(args.begin).opt, f)
            IN  /\ calls' = calls \o r.calls
                /\ out' = out \o DeleteLog(args.delete, args.begin)
                /\ rows' = r.rows
                /\ rstat' = [rstat EXCEPT !.delete = IF r.err = <<>> THEN "ok" ELSE "err"]
                /\ IF r.err = <<>>
                   THEN rpc' = "verify" /\ UNCHANGED <<client, rerr>>
                   ELSE Return(r.err)
    /\ UNCHANGED <<hostEnv, orchVars, container, schema, renv, args, exitCode>>

\* reproduce step 3: the verification read; reproduce returns nil, or the
\* read, scan or BUG error
RunnerVerify ==
    /\ rpc = "verify"
    /\ \E f \in {"none", "read", "scan"} :
         /\ f = "scan" => 1 \in rows
         /\ Inject(f # "none")
         /\ LET v == VerifyStep(rows, f)
            IN  /\ calls' = Append(calls, "ReadRow")
                /\ rstat' = [rstat EXCEPT !.read = v.read, !.scan = v.scan]
                /\ Return(v.err)
    /\ UNCHANGED <<hostEnv, orchVars, backendVars, renv, args, out, exitCode>>

\* the end of main: log.Fatalf("FAIL: %v", err) or log.Println("PASS")
RunnerFinish ==
    /\ rpc = "returned"
    /\ IF rerr # <<>>
       THEN Exit(<<FailLine(rerr)>>, 1)
       ELSE Exit(<<L_PASS>>, 0)
    /\ UNCHANGED <<hostEnv, orchVars, backendVars, renv, args, client, rstat, calls,
                   rerr, faults>>

(***************************************************************************)
(* Specification of a harness run                                          *)
(***************************************************************************)
Next ==
    \/ Build
    \/ LoopExit
    \/ LoopContinue
    \/ LoopCall
    \/ DockerRm
    \/ DockerRun
    \/ Spawn
    \/ RunnerMain
    \/ RunnerSetup
    \/ RunnerOpen
    \/ RunnerInsert
    \/ RunnerDelete
    \/ RunnerVerify
    \/ RunnerFinish
    \/ Record
    \/ Cleanup
    \/ Report

Spec == Init /\ [][Next]_vars

(***************************************************************************)
(* Specification of the classification alone: the pipeline and the `if` of *)
(* run_test applied to any output and exit status a process can hand it    *)
(***************************************************************************)
SampleLines ==
    {L_PASS, <<>>, L_PASSED, L_PASS_X, L_XPASS, L_PAS, FailLine(M_BUG), P_SETUP \o M_ERR}

RECURSIVE SeqsUpTo(_, _)
SeqsUpTo(S, n) ==
    IF n = 0 THEN {<<>>}
    ELSE LET shorter == SeqsUpTo(S, n - 1)
         IN  shorter \cup {Append(q, x) : q \in shorter, x \in S}

\* The exit status that goes with an output: 1 when log.Fatal or log.Fatalf
\* wrote the last line, 0 when the process returned from main
ExitStatusOf(lines) ==
    IF /\ lines # <<>>
       /\ LET l == lines[Len(lines)]
          IN  HasPrefix(l, P_FAIL) \/ HasPrefix(l, P_SETUP) \/ l = L_NOHOST
    THEN 1
    ELSE 0

InitClassify ==
    /\ hostEnv = ""
    /\ pc = "wait"
    /\ i = 1 /\ j = 1 /\ k = 1
    /\ enumerated = <<<<RW_ENVS[1], DELETES[1], BEGINS[1]>>>>
    /\ results = <<>>
    /\ printed = <<>>
    /\ container = "running" /\ schema = "none" /\ rows = {}
    /\ rpc = "exited"
    /\ renv = BuildEnv(RW_ENVS[1], "")
    /\ args = [delete |-> DELETES[1], begin |-> BEGINS[1], insert |-> "", skipSetup |-> FALSE]
    /\ client = "none"
    /\ rstat = NoStat
    /\ calls = <<>>
    /\ out \in SeqsUpTo(SampleLines, MaxLines)
    /\ rerr = <<>>
    /\ exitCode = ExitStatusOf(out)
    /\ faults = 0

NextClassify == Record

SpecClassify == InitClassify /\ [][NextClassify]_vars

(***************************************************************************)
(* Specification of one ./repro process started with any flags and         *)
(* environment: the flags of both variants of run_all.sh, a mode that is   *)
(* not known, -skip-setup, on an emulator that is fresh or already set up, *)
(* and its classification by run_test                                      *)
(***************************************************************************)
InitRunner ==
    /\ hostEnv = ""
    /\ pc = "wait"
    /\ i = 1 /\ j = 1 /\ k = 1
    /\ enumerated = <<<<RW_ENVS[1], DELETES[1], BEGINS[1]>>>>
    /\ results = <<>>
    /\ printed = <<>>
    /\ container = "running"
    /\ \/ schema = "none" /\ rows = {}
       \/ schema = "database" /\ rows \in {{}, {1}}
    /\ rpc = "main"
    /\ renv \in [host : {EMULATOR_HOST, ""}, mux : Range(RW_ENVS)]
    /\ args \in [delete : Range(DELETES) \cup {UNKNOWN_MODE},
                 begin : Range(BEGINS) \cup {UNKNOWN_MODE},
                 insert : {""} \cup Range(INSERTS),
                 skipSetup : BOOLEAN]
    /\ client = "none"
    /\ rstat = NoStat
    /\ calls = <<>>
    /\ out = <<>>
    /\ rerr = <<>>
    /\ exitCode = 0
    /\ faults = 0

NextRunner ==
    \/ RunnerMain
    \/ RunnerSetup
    \/ RunnerOpen
    \/ RunnerInsert
    \/ RunnerDelete
    \/ RunnerVerify
    \/ RunnerFinish
    \/ Record

SpecRunner == InitRunner /\ [][NextRunner]_vars

(***************************************************************************)
(* Properties                                                              *)
(***************************************************************************)
LastResult == results[Len(results)]

\* The runner's final output line is exactly l
LastLineIs(l) == out # <<>> /\ out[Len(out)] = l

\* The last run has been recorded and no other run has started since:
\* out, exitCode, rstat, args and renv are those of the run of LastResult.
AfterRun == rpc = "idle" /\ results # <<>>

\* No call of the last run failed
NoStepErr == \A f \in DOMAIN rstat : rstat[f] # "err"

LoopsOver == pc \in {"cleanup", "report", "done"}

\* C1: the orchestrator records PASS exactly when the final output line of
\* the run is the 4-character line PASS; every other final line is BUG.
C1_PassIffExactLine ==
    AfterRun => (LastResult.verdict = "PASS" <=> LastLineIs(L_PASS))

\* C2: the runner ends with PASS as its last line and exit status zero exactly
\* when the insert succeeded, the delete reported success and the read of key
\* 1 returned not-found; every other outcome ends with a non-zero status and
\* a last line that is not PASS.
C2_PassIffRowGone ==
    rpc = "exited" =>
        LET good == rstat.insert = "ok" /\ rstat.delete = "ok" /\ rstat.read = "notfound"
        IN  /\ (LastLineIs(L_PASS) /\ exitCode = 0) <=> good
            /\ ~good => (exitCode # 0 /\ ~LastLineIs(L_PASS))

C2_Witness ==
    /\ rpc = "exited"
    /\ rstat.insert = "ok" /\ rstat.delete = "ok" /\ rstat.read = "notfound"
    /\ LastLineIs(L_PASS) /\ exitCode = 0

\* Session multiplexing for read-write transactions is on for the point: the
\* toggle is true, or it is unset and nothing inherited turns it off.
MuxOn(lbl) ==
    lbl.rw = "true" \/ (lbl.rw = "unset" /\ hostEnv # "false")

\* The three trigger conditions of the issue report, on a point's label
C3_Trigger(lbl) ==
    /\ MuxOn(lbl)
    /\ lbl.delete \in {"stmt-mutation", "rw-mutation"}
    /\ lbl.begin = "explicit" \/ (lbl.begin = "default" /\ lbl.delete = "stmt-mutation")

\* C3: with the emulator defect, a point with multiplexing on, an explicit
\* BeginTransaction and a mutation delete, run without any failing call, is
\* recorded BUG: the delete reported success, the read returned the row and
\* the last line is the BUG failure.
C3_TriggerIsBug ==
    (AfterRun /\ NoStepErr /\ C3_Trigger(LastResult.label)) =>
        /\ LastResult.verdict = "BUG"
        /\ rstat.delete = "ok" /\ rstat.read = "row"
        /\ LastLineIs(FailLine(M_BUG)) /\ exitCode # 0

C3_Witness ==
    /\ AfterRun /\ NoStepErr
    /\ LastResult.label = [rw |-> "true", delete |-> "rw-mutation", begin |-> "explicit"]
    /\ LastResult.verdict = "BUG" /\ rstat.read = "row"

\* A point lacks one of the trigger conditions
C4_LacksTrigger(lbl) ==
    \/ ~MuxOn(lbl)
    \/ lbl.delete \in {"stmt-dml", "apply"}
    \/ lbl.begin = "inlined"
    \/ lbl.begin = "default" /\ lbl.delete = "rw-mutation"

\* C4: with the emulator defect, a point that lacks one of the trigger
\* conditions (multiplexing off, the DML delete, an inlined begin, the apply
\* point), run without any failing call, is recorded PASS.
C4_NoTriggerIsPass ==
    (AfterRun /\ NoStepErr /\ C4_LacksTrigger(LastResult.label)) =>
        /\ LastResult.verdict = "PASS"
        /\ rstat.read = "notfound"
        /\ LastLineIs(L_PASS) /\ exitCode = 0

C4_Witness ==
    /\ AfterRun /\ NoStepErr
    /\ LastResult.label = [rw |-> "true", delete |-> "stmt-mutation", begin |-> "inlined"]
    /\ LastResult.verdict = "PASS"

IndexOf(q, v) == CHOOSE n \in DOMAIN q : q[n] = v

\* The cartesian product of the axes without the apply points whose begin is
\* not default
C5_Expected ==
    {p \in Range(RW_ENVS) \X Range(DELETES) \X Range(BEGINS) :
        ~(p[2] = "apply" /\ p[3] # "default")}

\* Position in the order with the session mode slowest, then the delete
\* method, then the begin strategy
C5_Rank(p) ==
    (IndexOf(RW_ENVS, p[1]) - 1) * Len(DELETES) * Len(BEGINS)
    + (IndexOf(DELETES, p[2]) - 1) * Len(BEGINS)
    + IndexOf(BEGINS, p[3])

\* The expected points in that order: the n-th has n - 1 expected points
\* before it
C5_Order ==
    [n \in 1..Cardinality(C5_Expected) |->
        CHOOSE e \in C5_Expected :
            Cardinality({x \in C5_Expected : C5_Rank(x) < C5_Rank(e)}) = n - 1]

\* C5: the points run are the product of the three axes without the apply
\* points whose begin is not default, each once, in the order session mode,
\* delete method, begin strategy: the n-th point run is the n-th of them in
\* that order, and when the loops are over all of them have been run.
C5_Enumeration ==
    /\ Len(enumerated) <= Len(C5_Order)
    /\ \A n \in DOMAIN enumerated : enumerated[n] = C5_Order[n]
    /\ LoopsOver => Len(enumerated) = Len(C5_Order)

C5_Witness ==
    /\ LoopsOver
    /\ \E n \in DOMAIN enumerated : enumerated[n] = <<"", "apply", "default">>
    /\ \E n \in DOMAIN enumerated : enumerated[n] = <<"", "stmt-dml", "explicit">>

\* C6 as written: the exclusion removes 2 points and 3*4*3 - 2 points are
\* enumerated and run.
C6_CountMinusTwo ==
    pc = "done" =>
        /\ Len(enumerated) = 3 * 4 * 3 - 2
        /\ Len(results) = 3 * 4 * 3 - 2

\* C6 amended: the axes have 3, 4 and 3 values, the exclusion removes 2
\* points for each of the 3 session modes, and 3*4*3 - 6 points are
\* enumerated and run.
C6_CountMinusSix ==
    /\ Len(RW_ENVS) = 3 /\ Len(DELETES) = 4 /\ Len(BEGINS) = 3
    /\ pc = "done" =>
        /\ Len(enumerated) = 3 * 4 * 3 - 2 * 3
        /\ Len(results) = 3 * 4 * 3 - 2 * 3
        /\ \A r \in Range(RW_ENVS) :
             Cardinality({p \in {r} \X Range(DELETES) \X Range(BEGINS) :
                            p \notin Range(enumerated)}) = 2

C6_Witness ==
    pc = "done" /\ faults = 0 /\ Len(results) = Len(enumerated)

\* C7: once the loops are over the result list has one result per enumerated
\* point, the n-th carrying the label of the n-th enumerated point, and the
\* report has one row per result; before that the results are those of the
\* points enumerated so far, the last of which may still be running; and a
\* step never removes or changes a result.
C7_OneResultPerPoint ==
    /\ [](/\ Len(results) <= Len(enumerated)
          /\ Len(enumerated) <= Len(results) + 1
          /\ \A n \in DOMAIN results :
               results[n].label = Label(enumerated[n][1], enumerated[n][2], enumerated[n][3])
          /\ LoopsOver => Len(results) = Len(enumerated)
          /\ pc = "done" =>
               /\ Len(printed) = Len(results)
               /\ \A n \in DOMAIN results :
                    printed[n] = <<results[n].verdict, results[n].label.rw,
                                   results[n].label.delete, results[n].label.begin>>)
    /\ [][/\ Len(results') >= Len(results)
          /\ SubSeq(results', 1, Len(results)) = results]_vars

C7_Witness ==
    /\ pc = "done"
    /\ Len(results) = Len(enumerated) /\ Len(printed) = Len(results)
    /\ \E n \in DOMAIN results : results[n].verdict = "PASS"
    /\ \E n \in DOMAIN results : results[n].verdict = "BUG"

\* C8: the orchestrator waits while a runner is active, so there is never
\* more than the one it waits for; every runner starts on a container just
\* started, with no instance and an empty table; and a row a runner can see
\* was inserted by that runner.
C8_SequentialAndReset ==
    /\ rpc # "idle" => pc = "wait"
    /\ pc = "wait" => Len(enumerated) = Len(results) + 1
    /\ (pc = "spawn" \/ rpc = "main") =>
          (container = "running" /\ schema = "none" /\ rows = {})
    /\ (rpc # "idle" /\ rows # {}) => rstat.insert = "ok"

C8_Witness ==
    /\ rpc = "main"
    /\ results # <<>>
    /\ LastResult.verdict = "BUG"
    /\ container = "running" /\ rows = {}

\* C9: a failure of the reset and bootstrap of a point aborts the harness and
\* is not recorded: the runner is started only on a started container, and
\* after a run whose instance, database or table creation failed the script
\* has ended without a result for the point.
C9_SetupFailureAborts ==
    /\ pc = "spawn" => container = "running"
    /\ (rpc = "idle" /\ rstat.setup = "err") =>
          (pc = "aborted" /\ Len(results) < Len(enumerated))

\* C10: a runner that exits non-zero or whose last line is not PASS does not
\* end the script: the next step records BUG for its point and goes on with
\* the loops; only the build and the start of the container end the script.
C10_RunnerFailureContinues ==
    /\ [][(pc = "wait" /\ rpc = "exited" /\ (exitCode # 0 \/ ~LastLineIs(L_PASS))) =>
            /\ pc' = "loop"
            /\ results' = Append(results, [verdict |-> "BUG", label |-> CurLabel])
            /\ <<i', j', k'>> = Advance(i, j, k)]_vars
    /\ [][(pc' = "aborted" /\ pc # "aborted") => pc \in {"build", "run"}]_vars

C10_Witness ==
    /\ pc = "done"
    /\ results[1].verdict = "BUG"
    /\ Len(results) = Len(enumerated)
    /\ \E n \in DOMAIN results : results[n].verdict = "PASS"

\* The backend calls of the three steps of reproduce
InsertCalls == {"ReadWriteTransaction"}

DeleteCalls ==
    {"NewStmtTxn", "BufferWrite", "Query", "Commit", "Rollback",
     "ReadWriteTransactionWithOptions", "Apply"}

ReadCalls == {"ReadRow"}

CallsIn(S) == SelectSeq(calls, LAMBDA c : c \in S)

\* The run has left reproduce, or has ended
RunOver == rpc \in {"returned", "exited", "idle"}

\* The calls an insert through method m makes when every call succeeds
C11_InsertCallsOf(m) ==
    IF m = "rw" THEN <<"ReadWriteTransaction">>
    ELSE <<"NewStmtTxn", "Query", "Commit">>

\* C11: the runner accepts each insert value the insert-method variant of the
\* orchestrator passes (rw, stmt): it is not ended by the flag parser, and
\* once its insert has succeeded the insert was made through a managed
\* read-write transaction for rw and through an explicitly begun and
\* explicitly committed transaction for stmt.
C11_InsertMethodHonoured ==
    (args.insert \in Range(INSERTS) /\ rpc # "main") =>
        /\ ~(rpc = "exited" /\ exitCode = 2)
        /\ ~LastLineIs(USAGE[Len(USAGE)])
        /\ rstat.insert = "ok" => CallsIn(InsertCalls \cup DeleteCalls) =
                                     C11_InsertCallsOf(args.insert)

\* The place of a backend call in the order of the steps of a run
C12_StepOf(c) ==
    CASE c \in {"CreateInstance", "CreateDatabase", "NewClient"} -> 0
      [] c \in InsertCalls -> 1
      [] c \in DeleteCalls -> 2
      [] c \in ReadCalls -> 3
      [] OTHER -> 4

\* C12: in one run the backend calls are made in the order insert, delete,
\* verify read, one insert and one read at most; a delete call is made only
\* after the insert has committed, the read only after the delete has
\* returned success, and after a failed insert or delete no later step is
\* made and the run ends with a status that is not zero and a last line that
\* is not PASS.
C12_StepsInOrder ==
    /\ \A m, n \in DOMAIN calls :
         m < n => /\ C12_StepOf(calls[m]) <= C12_StepOf(calls[n])
                  /\ C12_StepOf(calls[n]) # 4
    /\ Len(CallsIn(InsertCalls)) <= 1 /\ Len(CallsIn(ReadCalls)) <= 1
    /\ CallsIn(DeleteCalls) # <<>> => rstat.insert = "ok"
    /\ rpc \in {"delete", "verify"} => rstat.insert = "ok"
    /\ CallsIn(ReadCalls) # <<>> => rstat.insert = "ok" /\ rstat.delete = "ok"
    /\ rpc = "verify" => rstat.delete = "ok"
    /\ rstat.insert = "err" =>
         /\ CallsIn(DeleteCalls \cup ReadCalls) = <<>>
         /\ rstat.delete = "none" /\ rstat.read = "none"
         /\ RunOver
    /\ rstat.delete = "err" =>
         /\ CallsIn(ReadCalls) = <<>>
         /\ rstat.read = "none"
         /\ RunOver
    /\ (rpc = "exited" /\ "err" \in {rstat.insert, rstat.delete}) =>
         exitCode # 0 /\ ~LastLineIs(L_PASS)

C12_Witness ==
    /\ rpc = "exited"
    /\ rstat.insert = "ok" /\ rstat.delete = "ok" /\ rstat.read = "row"
    /\ CallsIn(InsertCalls \cup DeleteCalls \cup ReadCalls) =
         <<"ReadWriteTransaction", "NewStmtTxn", "BufferWrite", "Commit", "ReadRow">>

\* C13: the last line of the runner is the BUG failure exactly when insert
\* and delete succeeded and the read returned a row that scanned; a read that
\* fails ends the run with the read failure as its last line, which is
\* neither the BUG failure nor PASS, and with a status that is not zero.
C13_BugIsDistinct ==
    rpc = "exited" =>
        /\ LastLineIs(FailLine(M_BUG)) <=>
             /\ rstat.insert = "ok" /\ rstat.delete = "ok"
             /\ rstat.read = "row" /\ rstat.scan = "ok"
        /\ rstat.read = "err" =>
             /\ LastLineIs(FailLine(Wrap(P_READ, M_ERR)))
             /\ FailLine(Wrap(P_READ, M_ERR)) # FailLine(M_BUG)
             /\ ~LastLineIs(FailLine(M_BUG))
             /\ ~LastLineIs(L_PASS)
             /\ exitCode # 0

C13_Witness ==
    /\ rpc = "exited"
    /\ rstat.insert = "ok" /\ rstat.delete = "ok" /\ rstat.read = "err"
    /\ LastLineIs(FailLine(Wrap(P_READ, M_ERR)))

\* The last line of the runner is a verdict line: PASS or a FAIL: line
C14_VerdictEmitted ==
    out # <<>> /\ (LastLineIs(L_PASS) \/ HasPrefix(out[Len(out)], P_FAIL))

\* C14: a client that was opened is closed once reproduce has returned, on
\* every path out of it; while a client is open the run is inside reproduce,
\* no verdict line has been emitted and the orchestrator is waiting for the
\* run, so that no client is open when a result is recorded or the backend
\* is reset.
C14_ClientClosed ==
    /\ RunOver => client # "open"
    /\ (RunOver /\ rstat.client = "ok") => client = "closed"
    /\ client = "open" =>
         /\ rpc \in {"insert", "delete", "verify"}
         /\ pc = "wait"
         /\ ~C14_VerdictEmitted

C14_Witness ==
    /\ rpc = "idle" /\ pc = "loop"
    /\ client = "closed"
    /\ args.delete \notin Range(DELETES)
    /\ rerr = P_UNKNOWN_DELETE \o DeleteChars(args.delete)

\* The faults a delete can meet, and none
C15_Faults == {"none"} \cup DeleteFaults("apply")

\* C15: for delete = apply the begin value has no effect. Wherever a run
\* with delete = apply stands at its delete step, the step run with begin =
\* default, inlined or explicit makes the same calls, returns the same error,
\* leaves the same table and logs the same line, whatever the call meets;
\* the calls of the step are the one Apply, and a run in which no call
\* failed ends with PASS for every begin value and every toggle.
C15_ApplyIgnoresBegin ==
    /\ (args.delete = "apply" /\ rpc = "delete") =>
         \A b \in Range(BEGINS), f \in C15_Faults :
            /\ parseBeginOption(b).err = <<>>
            /\ DeleteStep("apply", rows, renv.mux, parseBeginOption(b).opt, f) =
                 DeleteStep("apply", rows, renv.mux, parseBeginOption("default").opt, f)
            /\ DeleteLog("apply", b) = DeleteLog("apply", "default")
    /\ (args.delete = "apply" /\ rstat.delete # "none") =>
         CallsIn(DeleteCalls) = <<"Apply">>
    /\ (args.delete = "apply" /\ rstat.delete = "ok") => 1 \notin rows
    /\ (args.delete = "apply" /\ rpc = "exited" /\ rstat.delete = "ok"
          /\ rstat.read # "err") =>
         LastLineIs(L_PASS) /\ exitCode = 0

C15_Witness ==
    /\ args.delete = "apply" /\ args.begin = "explicit" /\ renv.mux = "true"
    /\ rpc = "exited"
    /\ CallsIn(DeleteCalls) = <<"Apply">>
    /\ LastLineIs(L_PASS)

\* C16: the toggle in the environment of a runner is the one of its point:
\* true for an enabled point, false for a disabled point and absent for an
\* unset point, whatever the orchestrator inherited.
C16_ToggleIsPointMode ==
    rpc # "idle" => renv.mux = RW_ENVS[i]

\* The terminal calls made on the statement-based transaction of the delete
C17_Terminals == CallsIn({"Commit", "Rollback"})

\* The statement-based transaction of the delete was begun
C17_Begun ==
    /\ "NewStmtTxn" \in Range(calls)
    /\ rerr # Wrap(P_DELETE, Wrap(P_BEGIN, M_ERR))

\* The buffered mutation or the DML statement of the delete failed
C17_OpFailed ==
    rerr \in {Wrap(P_DELETE, Wrap(P_BUFFER, M_ERR)),
              Wrap(P_DELETE, Wrap(P_QUERY, M_ERR))}

\* C17: a statement-based transaction that was begun for a delete is finished
\* by exactly one terminal call, the last call made on it: Rollback when the
\* buffered mutation or the DML statement failed, Commit otherwise; one that
\* could not be begun gets neither.
C17_OneTerminalCall ==
    "NewStmtTxn" \in Range(calls) =>
        /\ args.delete \in {"stmt-mutation", "stmt-dml"}
        /\ IF C17_Begun
           THEN /\ C17_Terminals = <<IF C17_OpFailed THEN "Rollback" ELSE "Commit">>
                /\ CallsIn(DeleteCalls)[Len(CallsIn(DeleteCalls))] = C17_Terminals[1]
                /\ CallsIn(DeleteCalls)[1] = "NewStmtTxn"
           ELSE C17_Terminals = <<>>

C17_Witness ==
    /\ rpc = "exited"
    /\ C17_Begun /\ C17_OpFailed
    /\ args.delete = "stmt-dml"
    /\ CallsIn(DeleteCalls) = <<"NewStmtTxn", "Query", "Rollback">>

C18_UnknownBegin == args.begin \notin Range(BEGINS)

C18_UnknownDelete == args.delete \notin Range(DELETES)

\* C18, on states: with a begin mode that is not known no client is ever
\* opened and no insert, delete or read is issued, and reproduce returns the
\* unknown-begin error; the unknown-delete error is returned only with the
\* insert committed and row 1 in the table, without any delete call, and it
\* is what a run with a known begin mode gets once its insert has committed;
\* both runs end with a status that is not zero and a last line that is not
\* PASS.
C18_RejectionPoints ==
    /\ C18_UnknownBegin =>
         /\ client = "none" /\ "NewClient" \notin Range(calls)
         /\ CallsIn(InsertCalls \cup DeleteCalls \cup ReadCalls) = <<>>
         /\ rstat.insert = "none" /\ rstat.delete = "none"
         /\ rpc = "returned" => rerr = P_UNKNOWN_BEGIN \o BeginChars(args.begin)
    /\ rerr = P_UNKNOWN_DELETE \o DeleteChars(args.delete) =>
         /\ C18_UnknownDelete /\ ~C18_UnknownBegin
         /\ rstat.insert = "ok" /\ 1 \in rows
         /\ CallsIn(InsertCalls) = <<"ReadWriteTransaction">>
         /\ CallsIn(DeleteCalls \cup ReadCalls) = <<>>
    /\ (C18_UnknownDelete /\ rstat.insert = "ok" /\ rpc # "delete") =>
         rerr = P_UNKNOWN_DELETE \o DeleteChars(args.delete)
    /\ ((C18_UnknownBegin \/ C18_UnknownDelete) /\ rpc = "exited") =>
         exitCode # 0 /\ ~LastLineIs(L_PASS)

\* C18, on steps: no step of a run with a begin mode that is not known
\* changes the table or opens a client, and the step that rejects a delete
\* mode leaves the table as the insert made it.
C18_TableUnchanged ==
    [][/\ C18_UnknownBegin => rows' = rows /\ client' = "none"
       /\ (C18_UnknownDelete /\ rpc = "delete") => rows' = rows /\ 1 \in rows']_vars

\* C18: an unknown begin mode is rejected before any client is opened or any
\* write is issued and leaves the table unchanged; an unknown delete mode is
\* rejected only after the insert has committed and leaves row 1 in the
\* table; both runs end without PASS.
C18_UnknownModes == []C18_RejectionPoints /\ C18_TableUnchanged

C18_Witness ==
    /\ rpc = "exited"
    /\ C18_UnknownDelete /\ ~C18_UnknownBegin
    /\ rerr = P_UNKNOWN_DELETE \o DeleteChars(args.delete)
    /\ 1 \in rows
    /\ LastLineIs(FailLine(P_UNKNOWN_DELETE \o DeleteChars(args.delete)))

====
